---- MODULE Spec2Model ----
(***************************************************************************)
(* A model of the Tagesschau archive scraper (src/scrape_tagesschau.py):   *)
(* the month worker process_month, the scheduler collect_links, the link   *)
(* log (process_month's append and load_links) and the article fetcher     *)
(* fetch_all_articles / fetch_article_with_retry.                          *)
(*                                                                         *)
(* The module holds several specifications over one set of variables; each *)
(* specification runs one part of the program and leaves the variables of  *)
(* the other parts at their initial values:                                *)
(*   SpecMonth    one process_month call, page by page                     *)
(*   SpecFetch    one fetch_all_articles call, task by task                *)
(*                (SpecFetchFair: with an event loop that keeps running)   *)
(*   SpecCollect  one collect_links call on the thread pool                *)
(*                (SpecCollectFair: with threads that keep running)        *)
(*   SpecDates    the day-grouping loop of collect_links                   *)
(*   SpecReprocess the grouping loop of collect_links_with_error           *)
(*   SpecRestart  main in fetch mode, interrupted and started again        *)
(*   SpecLog      appends to the link log followed by load_links           *)
(***************************************************************************)
EXTENDS Integers, Sequences, FiniteSets, TLC

VARIABLES
    \* ---- process_month (one call) ----
    pm_pc,                      \* position in process_month
    days,                       \* parameter days: the days of the month, in order
    page0,                      \* parameter page as passed by the caller
    page,                       \* local page
    day_idx,                    \* position of the for loop in days
    monthly_summary_detected,   \* local flag
    daily_links,                \* local list
    month_links,                \* local list
    requests,                   \* history: the listing requests made,
                                \* <<day, page, raised, returned records, summary signal>>
    signal_days,                \* history: days on which a page returned links and the summary signal
    active_months,              \* global list active_months
    links_file,                 \* content of the link log, a sequence of characters
    \* ---- load_links ----
    appended,                   \* history: the records appended to the log, in order
    loaded,                     \* result of the last load_links call (or NotLoaded)
    log_exists,                 \* the link log file exists
    \* ---- fetch_all_articles (one call) ----
    fa_pc,                      \* position of the orchestrator coroutine
    entries,                    \* parameter entries: the entries 1..Len(entries), in input order
    fa_i,                       \* loop variable i: the start offset of the batch
    batch,                      \* local batch
    results,                    \* local results
    tasks,                      \* per entry: the state of its fetch_article_with_retry task
    sessions,                   \* start offsets of the batches whose ClientSession is open
    completed,                  \* tasks of the current batch that settled, in completion order
    consumed,                   \* completions the as_completed loop has taken
    checkpoints,                \* the cache_<offset>.csv files written: offset -> rows
    batches,                    \* history: the batches sliced so far
    pauses,                     \* history: the offsets of the batches followed by a cool-down pause
    \* ---- collect_links (one call) ----
    cl_pc,                      \* position of collect_links in the main thread
    futures,                    \* the futures submitted, in submission order: future -> its month
    worker,                     \* per month: the position of its process_month on the pool
    worker_links,               \* per month: month_links of its process_month
    runs,                       \* history, per month: how often its process_month was started
    drained,                    \* the futures the as_completed loop has taken
    all_links,                  \* local all_links
    file_write_lock,            \* global file_write_lock: the workers holding it
    written,                    \* per month: how many of its month_links are written
    active_months_lock,         \* global active_months_lock: the threads holding it (0: main)
    \* ---- the grouping loop of collect_links ----
    gd_pc,                      \* position in the grouping loop
    start_date,                 \* parameter start_date
    end_date,                   \* parameter end_date
    current_date,               \* local current_date
    month_groups,               \* local dict month_groups, in insertion order
    \* ---- what outlives a run of the program ----
    error_days,                 \* the lines of error_days.txt
    interrupted                 \* history: the interruptions of main in fetch mode

monthVars == <<pm_pc, days, page0, page, day_idx, monthly_summary_detected,
               daily_links, month_links, requests, signal_days, active_months>>
logVars == <<links_file, appended, loaded, log_exists>>

fetchVars == <<fa_pc, entries, fa_i, batch, results, tasks, sessions, completed, consumed,
               checkpoints, batches, pauses>>

collectVars == <<cl_pc, futures, worker, worker_links, runs, drained, all_links,
                 file_write_lock, written, active_months_lock>>

dateVars == <<gd_pc, start_date, end_date, current_date, month_groups>>

runVars == <<error_days, interrupted>>

vars == <<monthVars, logVars, fetchVars, collectVars, dateVars, runVars>>

-----------------------------------------------------------------------------
(* Bounds of the model *)

\* days of the month that is crawled
NDays == 3
\* the archive serves no records at or beyond this page index
MaxPage == 3
\* records on one listing page
MaxLinks == 1
\* months in the date range of collect_links
NMonths == 3
\* the first year of the calendar window the date ranges are drawn from
BaseYear == 2023
\* start_date is at most StartWindow days after 1 December of BaseYear
StartWindow == 90
\* end_date is at most MaxSpan days after start_date
MaxSpan == 40
\* records in the link log
MaxLogRecords == 2
\* entries handed to fetch_all_articles
MaxEntries == 5
\* batch_size, scaled down from the program's 3000
batch_size == 2
\* parameter concurrency of fetch_all_articles, scaled down from main's 40
concurrency == 1

-----------------------------------------------------------------------------
(* Characters and the JSON line codec of the link log *)

\* the characters with a special role: quote, backslash, newline
QT == "QT"
BS == "BS"
NL == "NL"

Digits == <<"0", "1", "2", "3", "4", "5", "6", "7", "8", "9">>

HTTP == <<"h", "t", "t", "p">>

\* str.startswith
StartsWith(s, p) == Len(s) >= Len(p) /\ SubSeq(s, 1, Len(p)) = p

\* decimal digits of a natural number, as json.dumps writes an int
RECURSIVE IntToChars(_)
IntToChars(n) ==
    IF n < 10 THEN <<Digits[n + 1]>>
    ELSE IntToChars(n \div 10) \o <<Digits[(n % 10) + 1]>>

IsDigit(c) == \E i \in 1..10 : Digits[i] = c
DigitVal(c) == (CHOOSE i \in 1..10 : Digits[i] = c) - 1

\* json string escaping of quote, backslash and newline
EscapeMut(s) == s
RECURSIVE Escape(_)
Escape(s) ==
    IF s = <<>> THEN <<>>
    ELSE LET c == Head(s)
             e == IF c = QT THEN <<BS, QT>>
                  ELSE IF c = BS THEN <<BS, BS>>
                  ELSE IF c = NL THEN <<BS, "n">>
                  ELSE <<c>>
         IN  e \o Escape(Tail(s))

\* json.dumps(entry, ensure_ascii=False): one record as one line of text
json_dumps(entry) ==
    <<"{">> \o IntToChars(entry.date_api) \o <<",">> \o IntToChars(entry.page_api)
            \o <<",", QT>> \o Escape(entry.link) \o <<QT, "}">>

ParseFail == [ok |-> FALSE, val |-> <<>>, rest |-> <<>>]

\* reads a number; at least one digit
RECURSIVE ReadInt(_, _, _)
ReadInt(s, acc, seen) ==
    IF s # <<>> /\ IsDigit(Head(s))
    THEN ReadInt(Tail(s), 10 * acc + DigitVal(Head(s)), TRUE)
    ELSE IF seen THEN [ok |-> TRUE, val |-> acc, rest |-> s]
         ELSE [ok |-> FALSE, val |-> 0, rest |-> s]

\* reads the body of a json string up to its closing quote, undoing the escapes
RECURSIVE ReadString(_, _)
ReadString(s, acc) ==
    IF s = <<>> THEN ParseFail
    ELSE LET c == Head(s) IN
         IF c = QT THEN [ok |-> TRUE, val |-> acc, rest |-> Tail(s)]
         ELSE IF c = NL THEN ParseFail
         ELSE IF c = BS
              THEN IF Len(s) < 2 THEN ParseFail
                   ELSE LET e == s[2] IN
                        IF e = QT THEN ReadString(Tail(Tail(s)), Append(acc, QT))
                        ELSE IF e = BS THEN ReadString(Tail(Tail(s)), Append(acc, BS))
                        ELSE IF e = "n" THEN ReadString(Tail(Tail(s)), Append(acc, NL))
                        ELSE ParseFail
              ELSE ReadString(Tail(s), Append(acc, c))

Expect(s, c) == s # <<>> /\ Head(s) = c

\* json.loads(line) followed by entry["link"]: ok is FALSE where the code raises
json_loads(line) ==
    IF ~Expect(line, "{") THEN [ok |-> FALSE]
    ELSE LET d == ReadInt(Tail(line), 0, FALSE) IN
    IF ~(d.ok /\ Expect(d.rest, ",")) THEN [ok |-> FALSE]
    ELSE LET p == ReadInt(Tail(d.rest), 0, FALSE) IN
    IF ~(p.ok /\ Expect(p.rest, ",") /\ Expect(Tail(p.rest), QT)) THEN [ok |-> FALSE]
    ELSE LET l == ReadString(Tail(Tail(p.rest)), <<>>) IN
    IF ~(l.ok /\ l.rest = <<"}">>) THEN [ok |-> FALSE]
    ELSE [ok |-> TRUE,
          entry |-> [date_api |-> d.val, page_api |-> p.val, link |-> l.val]]

\* the lines of a text file: split at every newline, a last unterminated line included
RECURSIVE SplitLines(_, _)
SplitLines(f, cur) ==
    IF f = <<>> THEN (IF cur = <<>> THEN <<>> ELSE <<cur>>)
    ELSE IF Head(f) = NL THEN <<cur>> \o SplitLines(Tail(f), <<>>)
    ELSE SplitLines(Tail(f), Append(cur, Head(f)))

\* process_month's write loop: one line per entry, appended to the file
WriteLinksMut(f, recs) == f \o <<NL>>
RECURSIVE WriteLinks(_, _)
WriteLinks(f, recs) ==
    IF recs = <<>> THEN f
    ELSE WriteLinks(f \o json_dumps(Head(recs)) \o <<NL>>, Tail(recs))

\* load_links' filter on one parsed line
KeepEntry(r) == r.ok /\ ~StartsWith(r.entry.link, HTTP)

RECURSIVE LoadLinesMut(_)
LoadLinesMut(lines) ==
    IF lines = <<>> THEN <<>>
    ELSE LET r == json_loads(Head(lines)) IN
         IF ~r.ok THEN <<>>
         ELSE (IF KeepEntry(r) THEN <<r.entry>> ELSE <<>>) \o LoadLinesMut(Tail(lines))

RECURSIVE LoadLines(_)
LoadLines(lines) ==
    IF lines = <<>> THEN <<>>
    ELSE LET r == json_loads(Head(lines)) IN
         (IF KeepEntry(r) THEN <<r.entry>> ELSE <<>>) \o LoadLines(Tail(lines))

\* lines 295-302 of load_links: the entries read from the text of the file
load_links(f) == LoadLines(SplitLines(f, <<>>))

\* the value of loaded before load_links has returned
NotLoaded == [done |-> FALSE, entries |-> <<>>]

-----------------------------------------------------------------------------
(* The parts of the program a specification does not run stay as constructed *)

\* no fetch_all_articles call
FetchIdle ==
    /\ fa_pc = "idle"
    /\ entries = <<>>
    /\ fa_i = 0
    /\ batch = <<>>
    /\ results = <<>>
    /\ tasks = <<>>
    /\ sessions = {}
    /\ completed = <<>>
    /\ consumed = 0
    /\ checkpoints = {}
    /\ batches = <<>>
    /\ pauses = <<>>

\* no collect_links call
CollectIdle ==
    /\ cl_pc = "idle"
    /\ futures = <<>>
    /\ worker = <<>>
    /\ worker_links = <<>>
    /\ runs = <<>>
    /\ drained = {}
    /\ all_links = <<>>
    /\ file_write_lock = {}
    /\ written = <<>>
    /\ active_months_lock = {}

\* no grouping loop
DatesIdle ==
    /\ gd_pc = "idle"
    /\ start_date = <<>>
    /\ end_date = <<>>
    /\ current_date = <<>>
    /\ month_groups = <<>>

\* no process_month call
MonthIdle ==
    /\ pm_pc = "idle"
    /\ days = <<>>
    /\ page0 = 1
    /\ page = 1
    /\ day_idx = 1
    /\ monthly_summary_detected = FALSE
    /\ daily_links = <<>>
    /\ month_links = <<>>
    /\ requests = <<>>
    /\ signal_days = {}
    /\ active_months = <<>>

\* main was never interrupted
NoInterrupt == [restarts |-> 0, rows |-> {}]

\* no error_days.txt, no earlier run
RunIdle ==
    /\ error_days = <<>>
    /\ interrupted = NoInterrupt

\* an empty link log, never loaded
LogIdle ==
    /\ links_file = <<>>
    /\ appended = <<>>
    /\ loaded = NotLoaded
    /\ log_exists = FALSE

-----------------------------------------------------------------------------
(* process_month: one call, one action per listing request *)

\* the label f"{month:02d}.{year}" of the month that is crawled
month_str == "10.2023"

\* the link a teaser of a listing page carries (a site-relative path)
PageLinks == {<<"/", "a">>}

\* the records get_links_from_page builds from n teasers of page p of date d
LinkLists(d, p) ==
    UNION {[1..n -> {[date_api |-> d, page_api |-> p, link |-> l] : l \in PageLinks}]
           : n \in 0..MaxLinks}

\* what one get_links_from_page(date, page) call can do: raise, or return
\* (links, monthly_summary); the archive has no records from MaxPage on
get_links_from_page(d, p) ==
    {[exc |-> TRUE, links |-> <<>>, monthly_summary |-> FALSE]}
    \cup {[exc |-> FALSE, links |-> ls, monthly_summary |-> ms] :
             ls \in IF p >= MaxPage THEN {<<>>} ELSE LinkLists(d, p), ms \in BOOLEAN}

\* the page index the next request of the while loop uses
NextPage(p) == p + 1

\* the test at the head of the for loop that skips the rest of the month
SkipRestMut(detected) == FALSE
SummaryFlagMut(detected, monthly_summary) == TRUE
SkipRest(detected) == detected

\* the flag after a page with records
SummaryFlag(detected, monthly_summary) == detected \/ monthly_summary

\* lines 119-124: the request raised or the page has no records; the while loop breaks
EndsDayMut(r) == ~r.exc /\ r.links = <<>>
EndsDay(r) == r.exc \/ r.links = <<>>

\* lines 100-105: register the month, initialise the locals
Enter ==
    /\ pm_pc = "enter"
    /\ active_months' = Append(active_months, month_str)
    /\ monthly_summary_detected' = FALSE
    /\ month_links' = <<>>
    /\ day_idx' = 1
    /\ pm_pc' = "for"
    /\ UNCHANGED <<days, page0, page, daily_links, requests, signal_days, logVars, fetchVars, collectVars, dateVars, runVars>>

\* lines 107-113: the head of the for loop
ForDay ==
    /\ pm_pc = "for"
    /\ IF day_idx > Len(days) \/ SkipRest(monthly_summary_detected)
       THEN pm_pc' = "write" /\ UNCHANGED daily_links
       ELSE pm_pc' = "while" /\ daily_links' = <<>>
    /\ UNCHANGED <<days, page0, page, day_idx, monthly_summary_detected, month_links,
                   requests, signal_days, active_months, logVars, fetchVars, collectVars, dateVars, runVars>>

\* lines 116-132: one turn of the while loop, and the end of the day when it breaks
FetchPage ==
    /\ pm_pc = "while"
    /\ \E r \in get_links_from_page(days[day_idx], page) :
          /\ requests' = Append(requests, <<days[day_idx], page, r.exc, r.links # <<>>,
                                             r.monthly_summary>>)
          /\ IF EndsDay(r)
             THEN /\ month_links' = month_links \o daily_links
                  /\ day_idx' = day_idx + 1
                  /\ pm_pc' = "for"
                  /\ UNCHANGED <<daily_links, monthly_summary_detected, page, signal_days>>
             ELSE /\ daily_links' = daily_links \o r.links
                  /\ monthly_summary_detected' =
                         SummaryFlag(monthly_summary_detected, r.monthly_summary)
                  /\ signal_days' = IF r.monthly_summary
                                    THEN signal_days \cup {days[day_idx]}
                                    ELSE signal_days
                  /\ page' = NextPage(page)
                  /\ UNCHANGED <<month_links, day_idx, pm_pc>>
    /\ UNCHANGED <<days, page0, active_months, logVars, fetchVars, collectVars, dateVars, runVars>>

\* lines 134-138: the bulk append to the link log
WriteMonth ==
    /\ pm_pc = "write"
    /\ month_links # <<>>
    /\ links_file' = WriteLinks(links_file, month_links)
    /\ appended' = appended \o month_links
    /\ log_exists' = TRUE
    /\ pm_pc' = "leave"
    /\ UNCHANGED <<days, page0, page, day_idx, monthly_summary_detected, daily_links,
                   month_links, requests, signal_days, active_months, loaded, fetchVars, collectVars, dateVars, runVars>>

\* line 134: nothing to write
SkipWrite ==
    /\ pm_pc = "write"
    /\ month_links = <<>>
    /\ pm_pc' = "leave"
    /\ UNCHANGED <<days, page0, page, day_idx, monthly_summary_detected, daily_links,
                   month_links, requests, signal_days, active_months, logVars, fetchVars, collectVars, dateVars, runVars>>

\* line 136: open() raises (the log cannot be opened); the exception leaves process_month
WriteFails ==
    /\ pm_pc = "write"
    /\ month_links # <<>>
    /\ pm_pc' = "raised"
    /\ UNCHANGED <<days, page0, page, day_idx, monthly_summary_detected, daily_links,
                   month_links, requests, signal_days, active_months, logVars, fetchVars, collectVars, dateVars, runVars>>

\* list.remove: the first occurrence
RemoveFirst(s, x) ==
    LET i == CHOOSE k \in 1..Len(s) : s[k] = x /\ \A j \in 1..(k - 1) : s[j] # x
    IN  SubSeq(s, 1, i - 1) \o SubSeq(s, i + 1, Len(s))

\* lines 141-144: unregister the month and return month_links
Leave ==
    /\ pm_pc = "leave"
    /\ active_months' = RemoveFirst(active_months, month_str)
    /\ pm_pc' = "done"
    /\ UNCHANGED <<days, page0, page, day_idx, monthly_summary_detected, daily_links,
                   month_links, requests, signal_days, logVars, fetchVars, collectVars, dateVars, runVars>>

\* the days lists a caller passes: consecutive days first..last of one month
DayLists == {[i \in 1..(last - first + 1) |-> first + i - 1] :
                first \in 1..NDays, last \in 1..NDays} \ {<<>>}

\* process_month(year, month, days, links_filename, page) is called on an empty log
InitMonth ==
    /\ pm_pc = "enter"
    /\ days \in DayLists
    /\ page0 \in 1..2
    /\ page = page0
    /\ day_idx = 1
    /\ monthly_summary_detected = FALSE
    /\ daily_links = <<>>
    /\ month_links = <<>>
    /\ requests = <<>>
    /\ signal_days = {}
    /\ active_months = <<>>
    /\ links_file = <<>>
    /\ appended = <<>>
    /\ loaded = NotLoaded
    /\ log_exists = FALSE
    /\ FetchIdle
    /\ CollectIdle
    /\ DatesIdle
    /\ RunIdle

NextMonth == Enter \/ ForDay \/ FetchPage \/ WriteMonth \/ SkipWrite \/ WriteFails \/ Leave

SpecMonth == InitMonth /\ [][NextMonth]_vars

-----------------------------------------------------------------------------
(* fetch_all_articles and fetch_article_with_retry: one call of the orchestrator, *)
(* one action per step of the orchestrator and of every fetch task                *)

\* default of parameter max_retries
max_retries == 5

RECURSIVE Pow2(_)
Pow2(n) == IF n = 0 THEN 1 ELSE 2 * Pow2(n - 1)

\* line 255: the backoff after a failed attempt
wait_timeMut(retries) == 10 + Pow2(retries + 1)
wait_timeMutLinear(retries) == 11 + retries
wait_time(retries) == 10 + Pow2(retries)

\* line 248: the loop test of fetch_article_with_retry
MoreRetriesMut(retries) == retries <= max_retries
MoreRetries(retries) == retries < max_retries

\* line 272: the end of the slice entries[i : end]
SliceEnd(n, off) == IF off + batch_size < n THEN off + batch_size ELSE n - 1

\* entries[a:b] of Python, for 0 <= a and 0 <= b
Slice(s, a, b) == SubSeq(s, a + 1, IF b < Len(s) THEN b ELSE Len(s))

\* the batch an entry's task was launched in (batches are sliced from their offset on)
BatchOf(e) == ((e - 1) \div batch_size) * batch_size

NewTask == [st |-> "ready", retries |-> 0, attempts |-> 0, waited |-> 0]
NoTask == [st |-> "none", retries |-> 0, attempts |-> 0, waited |-> 0]

InFlight(off) == {t \in DOMAIN tasks : tasks[t].st = "inflight" /\ BatchOf(t) = off}

\* TCPConnector(limit=concurrency): a request gets a connection while fewer than limit are in use
ConnectionFreeMut(off) == TRUE
ConnectionFree(off) == Cardinality(InFlight(off)) < concurrency

\* lines 254-258: the attempt of a task with r retries failed; it sleeps
FailedAttempt(t) == [t EXCEPT !.st = "sleeping", !.waited = @ + wait_time(t.retries)]

\* as_completed hands a settled task of the batch being collected to the orchestrator
Settle(t) == IF fa_pc = "collect" /\ BatchOf(t) = fa_i THEN Append(completed, t) ELSE completed

\* df.sort_values(by='date_api'): entries are numbered in date_api order
RECURSIVE SortRows(_)
SortRows(S) ==
    IF S = {} THEN <<>>
    ELSE LET m == CHOOSE x \in S : \A y \in S : x <= y
         IN  <<m>> \o SortRows(S \ {m})

Range(s) == {s[k] : k \in DOMAIN s}

\* line 283: more batches follow the batch at offset off
MoreBatchesMut(n, off) == off + 2 * batch_size < n
MoreBatches(n, off) == off + batch_size < n

\* line 285: the articles handed to save_articles for cache_<off>.csv
SavedArticlesMut(res, off) == {e \in Range(res) : BatchOf(e) = off}
SavedArticles(res, off) == Range(res)

\* ---- the orchestrator ----

\* lines 271-275: slice the next batch, open its session, launch one task per entry
StartBatch ==
    /\ fa_pc = "for"
    /\ fa_i < Len(entries)
    /\ LET b == Slice(entries, fa_i, SliceEnd(Len(entries), fa_i)) IN
          /\ batch' = b
          /\ batches' = Append(batches, b)
          /\ tasks' = [t \in DOMAIN tasks |-> IF t \in Range(b) THEN NewTask ELSE tasks[t]]
    /\ sessions' = sessions \cup {fa_i}
    /\ completed' = <<>>
    /\ consumed' = 0
    /\ fa_pc' = "collect"
    /\ UNCHANGED <<pauses, entries, fa_i, results, checkpoints,
                   monthVars, logVars, collectVars, dateVars, runVars>>

\* lines 276-281: the as_completed loop takes the next settled task
Collect ==
    /\ fa_pc = "collect"
    /\ consumed < Len(batch)
    /\ completed # <<>>
    /\ LET t == Head(completed) IN
          IF tasks[t].st = "success"
          THEN /\ results' = Append(results, t)
               /\ consumed' = consumed + 1
               /\ completed' = Tail(completed)
               /\ UNCHANGED fa_pc
          ELSE /\ fa_pc' = "close"
               /\ UNCHANGED <<results, consumed, completed,
                   monthVars, logVars, collectVars, dateVars>>
    /\ UNCHANGED <<pauses, entries, fa_i, batch, tasks, sessions, checkpoints, batches,
                   monthVars, logVars, collectVars, dateVars, runVars>>

\* line 276: as_completed is exhausted
CollectEnd ==
    /\ fa_pc = "collect"
    /\ consumed = Len(batch)
    /\ fa_pc' = "close"
    /\ UNCHANGED <<pauses, entries, fa_i, batch, results, tasks, sessions, completed, consumed,
                   checkpoints, batches,
                   monthVars, logVars, collectVars, dateVars, runVars>>

\* line 274: leaving the async with closes the session; its requests in flight fail
CloseSession ==
    /\ fa_pc = "close"
    /\ sessions' = sessions \ {fa_i}
    /\ tasks' = [t \in DOMAIN tasks |->
                    IF t \in InFlight(fa_i) THEN FailedAttempt(tasks[t]) ELSE tasks[t]]
    /\ fa_pc' = IF MoreBatches(Len(entries), fa_i) THEN "pause" ELSE "save"
    /\ UNCHANGED <<pauses, entries, fa_i, batch, results, completed, consumed, checkpoints, batches,
                   monthVars, logVars, collectVars, dateVars, runVars>>

\* lines 283-284: the cool-down sleep has elapsed
Pause ==
    /\ fa_pc = "pause"
    /\ pauses' = Append(pauses, fa_i)
    /\ fa_pc' = "save"
    /\ UNCHANGED <<entries, fa_i, batch, results, tasks, sessions, completed, consumed,
                   checkpoints, batches,
                   monthVars, logVars, collectVars, dateVars, runVars>>

\* line 285 with lines 311-314: the checkpoint of the accumulated results
Save ==
    /\ fa_pc = "save"
    /\ results # <<>>
    /\ checkpoints' = {c \in checkpoints : c.offset # fa_i}
                         \cup {[offset |-> fa_i, rows |-> SortRows(SavedArticles(results, fa_i))]}
    /\ fa_i' = fa_i + batch_size
    /\ fa_pc' = "for"
    /\ UNCHANGED <<pauses, entries, batch, results, tasks, sessions, completed, consumed, batches,
                   monthVars, logVars, collectVars, dateVars, runVars>>

\* line 313: sort_values(by='date_api') on a frame without columns raises KeyError
SaveRaises ==
    /\ fa_pc = "save"
    /\ results = <<>>
    /\ fa_pc' = "raised"
    /\ tasks' = [t \in DOMAIN tasks |->
                    IF tasks[t].st \in {"ready", "inflight", "sleeping"}
                    THEN [tasks[t] EXCEPT !.st = "cancelled"] ELSE tasks[t]]
    /\ UNCHANGED <<pauses, entries, fa_i, batch, results, sessions, completed, consumed, checkpoints,
                   batches,
                   monthVars, logVars, collectVars, dateVars, runVars>>

\* line 287: the loop is over; asyncio.run cancels the tasks still pending
Return ==
    /\ fa_pc = "for"
    /\ fa_i >= Len(entries)
    /\ fa_pc' = "done"
    /\ tasks' = [t \in DOMAIN tasks |->
                    IF tasks[t].st \in {"ready", "inflight", "sleeping"}
                    THEN [tasks[t] EXCEPT !.st = "cancelled"] ELSE tasks[t]]
    /\ UNCHANGED <<pauses, entries, fa_i, batch, results, sessions, completed, consumed, checkpoints,
                   batches,
                   monthVars, logVars, collectVars, dateVars, runVars>>

\* ---- one fetch_article_with_retry task ----

Running == fa_pc \in {"collect", "close", "pause", "save", "for"}

\* lines 248-250, 206-208: an attempt starts and gets a connection of its session
StartAttempt(t) ==
    /\ Running
    /\ tasks[t].st = "ready"
    /\ BatchOf(t) \in sessions
    /\ ConnectionFree(BatchOf(t))
    /\ tasks' = [tasks EXCEPT ![t] = [@ EXCEPT !.st = "inflight", !.attempts = @ + 1]]
    /\ UNCHANGED <<pauses, fa_pc, entries, fa_i, batch, results, sessions, completed, consumed,
                   checkpoints, batches,
                   monthVars, logVars, collectVars, dateVars, runVars>>

\* line 208 on a closed session: session.get raises, fetch_article returns None
AttemptOnClosed(t) ==
    /\ Running
    /\ tasks[t].st = "ready"
    /\ BatchOf(t) \notin sessions
    /\ tasks' = [tasks EXCEPT ![t] = FailedAttempt([@ EXCEPT !.attempts = @ + 1])]
    /\ UNCHANGED <<pauses, fa_pc, entries, fa_i, batch, results, sessions, completed, consumed,
                   checkpoints, batches,
                   monthVars, logVars, collectVars, dateVars, runVars>>

\* lines 238, 251-253: the page was fetched; the task returns the entry
AttemptSucceeds(t) ==
    /\ Running
    /\ tasks[t].st = "inflight"
    /\ tasks' = [tasks EXCEPT ![t] = [@ EXCEPT !.st = "success"]]
    /\ completed' = Settle(t)
    /\ UNCHANGED <<pauses, fa_pc, entries, fa_i, batch, results, sessions, consumed, checkpoints, batches,
                   monthVars, logVars, collectVars, dateVars, runVars>>

\* lines 239-243, 251-257: the request failed; fetch_article returned None
AttemptFails(t) ==
    /\ Running
    /\ tasks[t].st = "inflight"
    /\ tasks' = [tasks EXCEPT ![t] = FailedAttempt(@)]
    /\ UNCHANGED <<pauses, fa_pc, entries, fa_i, batch, results, sessions, completed, consumed,
                   checkpoints, batches,
                   monthVars, logVars, collectVars, dateVars, runVars>>

\* lines 258, 248: the sleep is over; retry
Retry(t) ==
    /\ Running
    /\ tasks[t].st = "sleeping"
    /\ MoreRetries(tasks[t].retries + 1)
    /\ tasks' = [tasks EXCEPT ![t] = [@ EXCEPT !.st = "ready", !.retries = @ + 1]]
    /\ UNCHANGED <<pauses, fa_pc, entries, fa_i, batch, results, sessions, completed, consumed,
                   checkpoints, batches,
                   monthVars, logVars, collectVars, dateVars, runVars>>

\* lines 258-260: the sleep is over and the retries are used up; the task returns None
GiveUp(t) ==
    /\ Running
    /\ tasks[t].st = "sleeping"
    /\ ~MoreRetries(tasks[t].retries + 1)
    /\ tasks' = [tasks EXCEPT ![t] = [@ EXCEPT !.st = "failed", !.retries = @ + 1]]
    /\ completed' = Settle(t)
    /\ UNCHANGED <<pauses, fa_pc, entries, fa_i, batch, results, sessions, consumed, checkpoints, batches,
                   monthVars, logVars, collectVars, dateVars, runVars>>

\* fetch_all_articles(entries, concurrency) is called with 0..MaxEntries entries
InitFetch ==
    /\ fa_pc = "for"
    /\ \E n \in 0..MaxEntries :
          /\ entries = [k \in 1..n |-> k]
          /\ tasks = [k \in 1..n |-> NoTask]
    /\ fa_i = 0
    /\ batch = <<>>
    /\ results = <<>>
    /\ sessions = {}
    /\ completed = <<>>
    /\ consumed = 0
    /\ checkpoints = {}
    /\ batches = <<>>
    /\ pauses = <<>>
    /\ MonthIdle
    /\ LogIdle
    /\ CollectIdle
    /\ DatesIdle
    /\ RunIdle

NextFetch ==
    \/ StartBatch \/ Collect \/ CollectEnd \/ CloseSession \/ Pause \/ Save
    \/ SaveRaises \/ Return
    \/ \E t \in DOMAIN tasks : StartAttempt(t)
    \/ \E t \in DOMAIN tasks : AttemptOnClosed(t)
    \/ \E t \in DOMAIN tasks : AttemptSucceeds(t)
    \/ \E t \in DOMAIN tasks : AttemptFails(t)
    \/ \E t \in DOMAIN tasks : Retry(t)
    \/ \E t \in DOMAIN tasks : GiveUp(t)

SpecFetch == InitFetch /\ [][NextFetch]_vars

\* the event loop keeps running its tasks and the orchestrator, every sleep
\* elapses, and every request ends (aiohttp's default total timeout of the
\* session created at line 274 ends a request the service never answers)
SpecFetchFair == SpecFetch /\ WF_vars(NextFetch)

\* ---- main in fetch mode (lines 345-350), interrupted and started again ----

\* the entries load_links returns to main
MaxLoaded == 3
\* how often the run is interrupted and started again
MaxRestarts == 1

\* the entries that are in some cache_<offset>.csv
Persisted == UNION {Range(c.rows) : c \in checkpoints}

\* the process is killed while fetch_all_articles runs and main is started again:
\* the cache files stay, load_links returns the same entries (fetch mode does not
\* write the log), and fetch_all_articles starts with fresh locals
Interrupt ==
    /\ Running
    /\ interrupted.restarts < MaxRestarts
    /\ interrupted' = [restarts |-> interrupted.restarts + 1, rows |-> Persisted]
    /\ fa_pc' = "for"
    /\ fa_i' = 0
    /\ batch' = <<>>
    /\ results' = <<>>
    /\ tasks' = [t \in DOMAIN tasks |-> NoTask]
    /\ sessions' = {}
    /\ completed' = <<>>
    /\ consumed' = 0
    /\ batches' = <<>>
    /\ pauses' = <<>>
    /\ UNCHANGED <<entries, checkpoints, error_days,
                   monthVars, logVars, collectVars, dateVars>>

\* main calls fetch_all_articles(load_links(links_file), concurrency)
InitRestart ==
    /\ fa_pc = "for"
    /\ \E n \in 0..MaxLoaded :
          /\ entries = [k \in 1..n |-> k]
          /\ tasks = [k \in 1..n |-> NoTask]
    /\ fa_i = 0
    /\ batch = <<>>
    /\ results = <<>>
    /\ sessions = {}
    /\ completed = <<>>
    /\ consumed = 0
    /\ checkpoints = {}
    /\ batches = <<>>
    /\ pauses = <<>>
    /\ MonthIdle
    /\ LogIdle
    /\ CollectIdle
    /\ DatesIdle
    /\ RunIdle

NextRestart ==
    \/ StartBatch \/ Collect \/ CollectEnd \/ CloseSession \/ Pause \/ Save
    \/ SaveRaises \/ Return
    \/ \E t \in DOMAIN tasks : StartAttempt(t)
    \/ \E t \in DOMAIN tasks : AttemptOnClosed(t)
    \/ \E t \in DOMAIN tasks : AttemptSucceeds(t)
    \/ \E t \in DOMAIN tasks : AttemptFails(t)
    \/ \E t \in DOMAIN tasks : Retry(t)
    \/ \E t \in DOMAIN tasks : GiveUp(t)
    \/ Interrupt

SpecRestart == InitRestart /\ [][NextRestart]_vars

-----------------------------------------------------------------------------
(* collect_links: the months of the range on the ThreadPoolExecutor.              *)
(* The listing requests of a process_month touch no shared state, so a worker's  *)
(* crawl is one step here; SpecMonth runs it page by page.                       *)

\* line 167: the size of the pool, scaled down from the program's 5
max_workers == 2

Months == DOMAIN worker

RunningMonths ==
    {m \in Months :
        worker[m] \in {"enter", "entering", "crawl", "write", "writing", "leave", "leaving"}}
Settled(m) == worker[m] \in {"returned", "raised"}

\* ThreadPoolExecutor: a queued call starts when fewer than max_workers are running
WorkerFreeMut == TRUE
WorkerFree == Cardinality(RunningMonths) < max_workers

\* threading.Lock: acquire succeeds while no thread holds the lock
LockFreeMut == TRUE
LockFree == file_write_lock = {}

\* threading.Lock: active_months_lock can be taken while no thread holds it
MonthsLockFreeMut == TRUE
MonthsLockFree == active_months_lock = {}

\* line 174: all_links.extend(future.result())
MergeMut(all, ls) == ls
Merge(all, ls) == all \o ls

\* the main thread is inside the executor's with block
InPool == cl_pc \in {"collect", "postfix", "copy", "unwind"}

\* the workers that are inside "with file_write_lock" with the log open
Writers == {m \in Months : worker[m] = "writing"}

\* the month_links one process_month can end with: nothing, or two records of
\* its month (a teaser that two pages of the month list)
MonthResults(m) ==
    {<<>>,
     <<[date_api |-> m, page_api |-> 1, link |-> <<"/", "a">>],
       [date_api |-> m, page_api |-> 1, link |-> <<"/", "a">>]>>}

\* a pool thread takes the oldest queued call (lines 169-170, the executor's queue)
PoolStart(m) ==
    /\ InPool
    /\ worker[m] = "queued"
    /\ \A k \in Months : k < m => worker[k] # "queued"
    /\ WorkerFree
    /\ worker' = [worker EXCEPT ![m] = "enter"]
    /\ runs' = [runs EXCEPT ![m] = @ + 1]
    /\ UNCHANGED <<active_months_lock, cl_pc, futures, worker_links, drained, all_links, file_write_lock, written,
                   monthVars, logVars, fetchVars, dateVars, runVars>>

\* lines 100-101 on the pool: the worker takes active_months_lock
PoolEnter(m) ==
    /\ worker[m] = "enter"
    /\ MonthsLockFree
    /\ active_months_lock' = active_months_lock \cup {m}
    /\ worker' = [worker EXCEPT ![m] = "entering"]
    /\ UNCHANGED <<cl_pc, futures, worker_links, runs, drained, all_links, file_write_lock,
                   written,
                   monthVars, logVars, fetchVars, dateVars, runVars>>

\* lines 102-105 on the pool: the label is appended and the lock released
PoolRegister(m) ==
    /\ worker[m] = "entering"
    /\ active_months' = Append(active_months, futures[m])
    /\ active_months_lock' = active_months_lock \ {m}
    /\ worker' = [worker EXCEPT ![m] = "crawl"]
    /\ UNCHANGED <<cl_pc, futures, worker_links, runs, drained, all_links, file_write_lock,
                   written,
                   pm_pc, days, page0, page, day_idx, monthly_summary_detected, daily_links,
                   month_links, requests, signal_days, logVars, fetchVars, dateVars, runVars>>

\* lines 107-132 on the pool
PoolCrawl(m) ==
    /\ worker[m] = "crawl"
    /\ \E ls \in MonthResults(futures[m]) :
          worker_links' = [worker_links EXCEPT ![m] = ls]
    /\ worker' = [worker EXCEPT ![m] = "write"]
    /\ UNCHANGED <<active_months_lock, cl_pc, futures, runs, drained, all_links, file_write_lock, written,
                   monthVars, logVars, fetchVars, dateVars, runVars>>

\* line 134: month_links is empty, nothing is written
PoolSkipWrite(m) ==
    /\ worker[m] = "write"
    /\ worker_links[m] = <<>>
    /\ worker' = [worker EXCEPT ![m] = "leave"]
    /\ UNCHANGED <<active_months_lock, cl_pc, futures, worker_links, runs, drained, all_links, file_write_lock,
                   written,
                   monthVars, logVars, fetchVars, dateVars, runVars>>

\* lines 135-136: the worker takes file_write_lock and opens the log for appending
PoolAcquire(m) ==
    /\ worker[m] = "write"
    /\ worker_links[m] # <<>>
    /\ LockFree
    /\ file_write_lock' = file_write_lock \cup {m}
    /\ log_exists' = TRUE
    /\ worker' = [worker EXCEPT ![m] = "writing"]
    /\ UNCHANGED <<active_months_lock, cl_pc, futures, worker_links, runs, drained, all_links, written,
                   monthVars, links_file, appended, loaded, fetchVars, dateVars, runVars>>

\* lines 137-138: one turn of the write loop
PoolWrite(m) ==
    /\ worker[m] = "writing"
    /\ written[m] < Len(worker_links[m])
    /\ links_file' = WriteLinks(links_file, <<worker_links[m][written[m] + 1]>>)
    /\ appended' = Append(appended, worker_links[m][written[m] + 1])
    /\ written' = [written EXCEPT ![m] = @ + 1]
    /\ UNCHANGED <<active_months_lock, cl_pc, futures, worker, worker_links, runs, drained, all_links,
                   file_write_lock,
                   monthVars, loaded, log_exists, fetchVars, dateVars, runVars>>

\* lines 135-138: the write loop is over; the file is closed and the lock released
PoolRelease(m) ==
    /\ worker[m] = "writing"
    /\ written[m] = Len(worker_links[m])
    /\ file_write_lock' = file_write_lock \ {m}
    /\ worker' = [worker EXCEPT ![m] = "leave"]
    /\ UNCHANGED <<active_months_lock, cl_pc, futures, worker_links, runs, drained, all_links, written,
                   monthVars, logVars, fetchVars, dateVars, runVars>>

\* lines 135-136 on the pool: the lock is taken, open() raises, the with statement
\* releases the lock and the exception ends the call
PoolWriteFails(m) ==
    /\ worker[m] = "write"
    /\ worker_links[m] # <<>>
    /\ LockFree
    /\ worker' = [worker EXCEPT ![m] = "raised"]
    /\ UNCHANGED <<active_months_lock, cl_pc, futures, worker_links, runs, drained, all_links, file_write_lock,
                   written,
                   monthVars, logVars, fetchVars, dateVars, runVars>>

\* line 141 on the pool: the worker takes active_months_lock
PoolLeave(m) ==
    /\ worker[m] = "leave"
    /\ MonthsLockFree
    /\ active_months_lock' = active_months_lock \cup {m}
    /\ worker' = [worker EXCEPT ![m] = "leaving"]
    /\ UNCHANGED <<cl_pc, futures, worker_links, runs, drained, all_links, file_write_lock,
                   written,
                   monthVars, logVars, fetchVars, dateVars, runVars>>

\* lines 142-144 on the pool: the label is removed, the lock released, month_links returned
PoolUnregister(m) ==
    /\ worker[m] = "leaving"
    /\ active_months' = RemoveFirst(active_months, futures[m])
    /\ active_months_lock' = active_months_lock \ {m}
    /\ worker' = [worker EXCEPT ![m] = "returned"]
    /\ UNCHANGED <<cl_pc, futures, worker_links, runs, drained, all_links, file_write_lock,
                   written,
                   pm_pc, days, page0, page, day_idx, monthly_summary_detected, daily_links,
                   month_links, requests, signal_days, logVars, fetchVars, dateVars, runVars>>

\* lines 173-174: as_completed yields a settled future and its result is merged
Drain(m) ==
    /\ cl_pc = "collect"
    /\ worker[m] = "returned"
    /\ m \notin drained
    /\ all_links' = Merge(all_links, worker_links[m])
    /\ drained' = drained \cup {m}
    /\ cl_pc' = "postfix"
    /\ UNCHANGED <<futures, worker, worker_links, runs, file_write_lock, written,
                   active_months_lock,
                   monthVars, logVars, fetchVars, dateVars, runVars>>

\* line 176: the main thread takes active_months_lock
DrainLock ==
    /\ cl_pc = "postfix"
    /\ MonthsLockFree
    /\ active_months_lock' = active_months_lock \cup {0}
    /\ cl_pc' = "copy"
    /\ UNCHANGED <<futures, worker, worker_links, runs, drained, all_links, file_write_lock,
                   written,
                   monthVars, logVars, fetchVars, dateVars, runVars>>

\* lines 177-178: active_months.copy() goes to the progress bar, the lock is released
DrainCopy ==
    /\ cl_pc = "copy"
    /\ active_months_lock' = active_months_lock \ {0}
    /\ cl_pc' = "collect"
    /\ UNCHANGED <<futures, worker, worker_links, runs, drained, all_links, file_write_lock,
                   written,
                   monthVars, logVars, fetchVars, dateVars, runVars>>

\* line 174: future.result() re-raises the worker's exception in the main thread
DrainRaises(m) ==
    /\ cl_pc = "collect"
    /\ worker[m] = "raised"
    /\ m \notin drained
    /\ cl_pc' = "unwind"
    /\ UNCHANGED <<active_months_lock, futures, worker, worker_links, runs, drained, all_links, file_write_lock,
                   written,
                   monthVars, logVars, fetchVars, dateVars, runVars>>

\* line 167: leaving the with block waits for every submitted call; then
\* collect_links returns all_links (line 180) or the exception leaves it
Shutdown ==
    /\ cl_pc \in {"collect", "unwind"}
    /\ cl_pc = "collect" => drained = Months
    /\ \A m \in Months : Settled(m)
    /\ cl_pc' = IF cl_pc = "collect" THEN "done" ELSE "raised"
    /\ UNCHANGED <<active_months_lock, futures, worker, worker_links, runs, drained, all_links, file_write_lock,
                   written,
                   monthVars, logVars, fetchVars, dateVars, runVars>>

\* collect_links after the grouping loop and the submit loop (lines 158-170),
\* for a range of 1..NMonths months
InitCollect ==
    /\ cl_pc = "collect"
    /\ \E n \in 1..NMonths :
          /\ futures = [m \in 1..n |-> m]
          /\ worker = [m \in 1..n |-> "queued"]
          /\ worker_links = [m \in 1..n |-> <<>>]
          /\ runs = [m \in 1..n |-> 0]
          /\ written = [m \in 1..n |-> 0]
    /\ drained = {}
    /\ all_links = <<>>
    /\ file_write_lock = {}
    /\ active_months_lock = {}
    /\ MonthIdle
    /\ LogIdle
    /\ FetchIdle
    /\ DatesIdle
    /\ RunIdle

NextCollect ==
    \/ \E m \in Months : PoolStart(m)
    \/ \E m \in Months : PoolEnter(m)
    \/ \E m \in Months : PoolRegister(m)
    \/ \E m \in Months : PoolCrawl(m)
    \/ \E m \in Months : PoolSkipWrite(m)
    \/ \E m \in Months : PoolAcquire(m)
    \/ \E m \in Months : PoolWrite(m)
    \/ \E m \in Months : PoolRelease(m)
    \/ \E m \in Months : PoolWriteFails(m)
    \/ \E m \in Months : PoolLeave(m)
    \/ \E m \in Months : PoolUnregister(m)
    \/ \E m \in Months : Drain(m)
    \/ DrainLock
    \/ DrainCopy
    \/ \E m \in Months : DrainRaises(m)
    \/ Shutdown

SpecCollect == InitCollect /\ [][NextCollect]_vars

\* the threads of the pool and the main thread keep running
SpecCollectFair == SpecCollect /\ WF_vars(NextCollect)

-----------------------------------------------------------------------------
(* The grouping loop of collect_links (lines 158-164) on calendar dates *)

IsLeap(y) == (y % 4 = 0 /\ y % 100 # 0) \/ y % 400 = 0

DaysInMonth(y, m) ==
    IF m = 2 THEN (IF IsLeap(y) THEN 29 ELSE 28)
    ELSE IF m \in {4, 6, 9, 11} THEN 30 ELSE 31

Date(y, m, d) == [year |-> y, month |-> m, day |-> d]

\* date + datetime.timedelta(days=1)
NextDate(d) ==
    IF d.day < DaysInMonth(d.year, d.month) THEN Date(d.year, d.month, d.day + 1)
    ELSE IF d.month < 12 THEN Date(d.year, d.month + 1, 1)
    ELSE Date(d.year + 1, 1, 1)

\* date <= date
DateLE(a, b) ==
    \/ a.year < b.year
    \/ a.year = b.year /\ a.month < b.month
    \/ a.year = b.year /\ a.month = b.month /\ a.day <= b.day

\* line 162: the key of a day's group
GroupKeyMut(d) == <<d.year, 1>>
GroupKey(d) == <<d.year, d.month>>

\* line 163: month_groups.setdefault(ym, []).append(current_date)
SetDefaultAppend(groups, ym, d) ==
    IF \E g \in 1..Len(groups) : groups[g].key = ym
    THEN [g \in 1..Len(groups) |->
             IF groups[g].key = ym
             THEN [groups[g] EXCEPT !.days = Append(@, d)]
             ELSE groups[g]]
    ELSE Append(groups, [key |-> ym, days |-> <<d>>])

\* lines 161-164: one turn of the while loop
GroupDay ==
    /\ gd_pc = "while"
    /\ DateLE(current_date, end_date)
    /\ month_groups' = SetDefaultAppend(month_groups, GroupKey(current_date), current_date)
    /\ current_date' = NextDate(current_date)
    /\ UNCHANGED <<gd_pc, start_date, end_date, monthVars, logVars, fetchVars, collectVars, runVars>>

\* line 161: current_date is past end_date
GroupEnd ==
    /\ gd_pc = "while"
    /\ ~DateLE(current_date, end_date)
    /\ gd_pc' = "grouped"
    /\ UNCHANGED <<start_date, end_date, current_date, month_groups,
                   monthVars, logVars, fetchVars, collectVars, runVars>>

\* the dates of December of BaseYear and of the year after it
Calendar ==
    {Date(BaseYear, 12, d) : d \in 1..31}
    \cup UNION {{Date(BaseYear + 1, m, d) : d \in 1..DaysInMonth(BaseYear + 1, m)} : m \in 1..12}

RECURSIVE DaysBefore(_, _)
DaysBefore(y, m) == IF m = 1 THEN 0 ELSE DaysInMonth(y, m - 1) + DaysBefore(y, m - 1)

\* the number of days from 1 December of BaseYear to a date of the calendar
Ordinal(d) ==
    IF d.year = BaseYear THEN d.day - 1
    ELSE 31 + DaysBefore(d.year, d.month) + d.day - 1

\* collect_links(start_date, end_date, links_filename) at line 160: start_date is
\* one of the first StartWindow days of the calendar, end_date is at most MaxSpan
\* days later, or the day before start_date (an empty range)
InitDates ==
    /\ gd_pc = "while"
    /\ start_date \in {d \in Calendar : Ordinal(d) <= StartWindow}
    /\ end_date \in {d \in Calendar : Ordinal(d) - Ordinal(start_date) \in (-1)..MaxSpan}
    /\ current_date = start_date
    /\ month_groups = <<>>
    /\ MonthIdle
    /\ LogIdle
    /\ FetchIdle
    /\ CollectIdle
    /\ RunIdle

NextDates == GroupDay \/ GroupEnd

SpecDates == InitDates /\ [][NextDates]_vars

\* ---- collect_links_with_error (lines 182-197): one line of error_days.txt ----

\* datetime.MAXYEAR, scaled down from 9999 to the last year of the calendar
MAXYEAR == BaseYear + 1

\* the page indices a line of error_days.txt can carry
ErrorPages == {1, 2}

\* lines 186-188: the fields of the line, split at ";" and parsed
ErrorLines == [date : Calendar, page : ErrorPages]

\* lines 189-194: one turn of the while True loop; the date after date.max
\* does not exist (OverflowError at line 192)
ErrGroupDay ==
    /\ gd_pc = "error_while"
    /\ month_groups' = SetDefaultAppend(month_groups, GroupKey(current_date), current_date)
    /\ IF current_date = Date(MAXYEAR, 12, 31)
       THEN gd_pc' = "raised" /\ UNCHANGED current_date
       ELSE /\ current_date' = NextDate(current_date)
            /\ gd_pc' = IF NextDate(current_date).month > start_date.month
                        THEN "grouped" ELSE "error_while"
    /\ UNCHANGED <<start_date, end_date, monthVars, logVars, fetchVars, collectVars, runVars>>

\* lines 196-197: process_month is called for a group with page=int(infos[1])
\* (SpecMonth runs the call itself)
ErrProcess ==
    /\ gd_pc = "grouped"
    /\ month_groups # <<>>
    /\ days' = Head(month_groups).days
    /\ page0' = error_days[1].page
    /\ page' = error_days[1].page
    /\ pm_pc' = "enter"
    /\ month_groups' = Tail(month_groups)
    /\ gd_pc' = IF Tail(month_groups) = <<>> THEN "called" ELSE "grouped"
    /\ UNCHANGED <<day_idx, monthly_summary_detected, daily_links, month_links, requests,
                   signal_days, active_months, start_date, end_date, current_date,
                   logVars, fetchVars, collectVars, runVars>>

\* collect_links_with_error(links_file) has read a line of error_days.txt (lines 183-188)
InitReprocess ==
    /\ gd_pc = "error_while"
    /\ error_days \in {<<l>> : l \in ErrorLines}
    /\ start_date = error_days[1].date
    /\ current_date = start_date
    /\ end_date = <<>>
    /\ month_groups = <<>>
    /\ interrupted = NoInterrupt
    /\ MonthIdle
    /\ LogIdle
    /\ FetchIdle
    /\ CollectIdle

NextReprocess == ErrGroupDay \/ ErrProcess

SpecReprocess == InitReprocess /\ [][NextReprocess]_vars

-----------------------------------------------------------------------------
(* The link log: appends of process_month (lines 134-138) followed by load_links *)

\* links as a listing page can carry them: empty, relative, absolute, and with
\* characters that json escapes
LogLinks ==
    {<<>>, <<"/", "a">>, <<"h", "t", "t", "p", "s">>, <<"h", "t", "t">>,
     <<"/", QT>>, <<BS, "n">>, <<"/", NL, "a">>}

LogRecords == [date_api : {1, 12}, page_api : {10}, link : LogLinks]

\* the lines of the log
LogLines == SplitLines(links_file, <<>>)

\* lines 134-138: one process_month appends its month_links
AppendLinks ==
    /\ \E n \in 1..(MaxLogRecords - Len(LogLines)) : \E ls \in [1..n -> LogRecords] :
          /\ links_file' = WriteLinks(links_file, ls)
          /\ appended' = appended \o ls
    /\ log_exists' = TRUE
    /\ loaded' = NotLoaded
    /\ UNCHANGED <<monthVars, fetchVars, collectVars, dateVars, runVars>>

\* lines that are not records with a link: an empty line, a record without the
\* link field, a record cut off in the middle, text that is not JSON
ForeignLines ==
    {<<>>,
     <<"{", "1", ",", "1", "0", "}">>,
     <<"{", "1", ",", "1", "0", ",", QT, "/", "a">>,
     <<"x">>}

\* the log gets a line that no process_month wrote (lines 297-302 have to cope with it)
ForeignLine ==
    /\ Len(LogLines) < MaxLogRecords
    /\ \E l \in ForeignLines : links_file' = links_file \o l \o <<NL>>
    /\ log_exists' = TRUE
    /\ loaded' = NotLoaded
    /\ UNCHANGED <<appended, monthVars, fetchVars, collectVars, dateVars, runVars>>

\* lines 289-304: load_links on the log as it is
LoadLinks ==
    /\ loaded' = [done |-> TRUE,
                  entries |-> IF log_exists THEN load_links(links_file) ELSE <<>>]
    /\ UNCHANGED <<links_file, appended, log_exists,
                   monthVars, fetchVars, collectVars, dateVars, runVars>>

InitLog ==
    /\ LogIdle
    /\ MonthIdle
    /\ FetchIdle
    /\ CollectIdle
    /\ DatesIdle
    /\ RunIdle

NextLog == AppendLinks \/ ForeignLine \/ LoadLinks

SpecLog == InitLog /\ [][NextLog]_vars

-----------------------------------------------------------------------------
(* Claims about process_month, checked under SpecMonth *)

RequestDay(i) == requests[i][1]
RequestPage(i) == requests[i][2]
CollectedLinks == month_links \o daily_links

\* C1: the days are requested in ascending order, and once a page of day d has
\* returned records together with the summary signal, no page of a later day is
\* requested and no record of a later day is collected or written, while every
\* day of the month up to and including d has been requested.
C1_EarlyStop ==
    /\ \A i, j \in 1..Len(requests) : i < j => RequestDay(i) <= RequestDay(j)
    /\ \A d \in signal_days :
          /\ \A i \in 1..Len(requests) : RequestDay(i) <= d
          /\ \A i \in 1..Len(CollectedLinks) : CollectedLinks[i].date_api <= d
          /\ \A i \in 1..Len(appended) : appended[i].date_api <= d
          /\ \A k \in 1..Len(days) :
                days[k] <= d => \E i \in 1..Len(requests) : RequestDay(i) = days[k]

\* a finished month of three days whose first day carried the signal
C1_Witness ==
    /\ pm_pc = "done"
    /\ signal_days = {1}
    /\ Len(days) = 3
    /\ appended # <<>>

\* C6: in collect mode (page = 1 passed) the first request of every day is page 1
\* and the requests of one day are for consecutive pages.
C6_PagesRestart ==
    page0 = 1 =>
        \A i \in 1..Len(requests) :
            IF i > 1 /\ RequestDay(i - 1) = RequestDay(i)
            THEN RequestPage(i) = RequestPage(i - 1) + 1
            ELSE RequestPage(i) = 1

\* C18: every listing request that raised has a line (date, page) in the
\* error ledger, from the step of the request on.
C18_ErrorsPersisted ==
    \A i \in 1..Len(requests) :
        requests[i][3] =>
            \E k \in 1..Len(error_days) :
                error_days[k].date = RequestDay(i) /\ error_days[k].page = RequestPage(i)

RequestRaised(i) == requests[i][3]
RequestHadRecords(i) == requests[i][4]
RequestHadSignal(i) == requests[i][5]

\* the for loop of process_month is over
LoopOver == pm_pc \in {"write", "leave", "done", "raised"}

AllDaysRequested ==
    \A k \in 1..Len(days) : \E i \in 1..Len(requests) : RequestDay(i) = days[k]

C24_OneBulkWrite ==
    /\ pm_pc \in {"enter", "for", "while", "write", "raised"} =>
          (appended = <<>> /\ links_file = <<>>)
    /\ pm_pc \in {"leave", "done"} =>
          /\ appended = month_links
          /\ load_links(links_file) = month_links
          /\ Len(SplitLines(links_file, <<>>)) = Len(month_links)

\* a returned call that wrote records of two days
C24_Witness ==
    /\ pm_pc = "done"
    /\ \E a, b \in 1..Len(appended) : appended[a].date_api # appended[b].date_api

\* C29: monthly_summary_detected is set exactly when some page has returned
\* records together with the summary signal; a page that returns the signal
\* without records ends its day (the next request is for a later day) and, if no
\* page returned records with the signal, every day is requested before the
\* loop is over.
C29_SignalNeedsRecords ==
    /\ monthly_summary_detected <=>
          \E i \in 1..Len(requests) : RequestHadRecords(i) /\ RequestHadSignal(i)
    /\ \A i \in 1..Len(requests) :
          (RequestHadSignal(i) /\ ~RequestHadRecords(i)) =>
              /\ \A j \in 1..Len(requests) : j > i => RequestDay(j) > RequestDay(i)
              /\ pm_pc = "while" => days[day_idx] > RequestDay(i)
    /\ (LoopOver /\ ~monthly_summary_detected) => AllDaysRequested

\* a finished month in which a page returned the signal without records, the
\* flag stayed unset and a later day was requested
C29_Witness ==
    /\ pm_pc = "done"
    /\ ~monthly_summary_detected
    /\ \E i, j \in 1..Len(requests) :
          /\ RequestHadSignal(i) /\ ~RequestHadRecords(i) /\ ~RequestRaised(i)
          /\ j > i

-----------------------------------------------------------------------------
(* Claims about fetch_all_articles and fetch_article_with_retry, checked under SpecFetch *)

Min(a, b) == IF a < b THEN a ELSE b

RECURSIVE SumWaits(_, _)
SumWaits(lo, hi) == IF lo > hi THEN 0 ELSE (10 + Pow2(lo)) + SumWaits(lo + 1, hi)

CheckpointRows == UNION {Range(c.rows) : c \in checkpoints}

\* C2: when fetch_all_articles has returned, the returned records and the records
\* in the checkpoint files are exactly the input entries whose own fetch did not
\* end in terminal failure.
C2_OutputIsInputMinusFailures ==
    fa_pc = "done" =>
        LET kept == {e \in Range(entries) : tasks[e].st # "failed"}
        IN  Range(results) = kept /\ CheckpointRows = kept

\* C3: the k-th batch is entries[(k-1)B .. min(kB, N)), so the batches are
\* ceil(N/B) contiguous slices of at most B entries that concatenate to the input,
\* and a task has been launched for every entry once the last batch has started.
C3_BatchesPartition ==
    /\ \A k \in 1..Len(batches) :
          batches[k] = SubSeq(entries, (k - 1) * batch_size + 1,
                              Min(k * batch_size, Len(entries)))
    /\ fa_pc = "done" =>
          /\ Len(batches) * batch_size >= Len(entries)
          /\ (Len(batches) - 1) * batch_size < Len(entries)
          /\ \A e \in Range(entries) : tasks[e].st # "none"

LastAttemptSucceeded(t) == tasks[t].st = "success" /\ tasks[t].retries = max_retries - 1

\* C4 (as amended): a task whose first max_retries-1 attempts failed and whose last
\* attempt succeeded has made exactly max_retries attempts and has slept
\* the sum of 10 + 2^k for k in 0..max_retries-2, which is 55 for max_retries = 5.
C4_WaitsFromZero ==
    \A t \in DOMAIN tasks :
        LastAttemptSucceeded(t) =>
            /\ tasks[t].attempts = max_retries
            /\ tasks[t].waited = SumWaits(0, max_retries - 2)
            /\ tasks[t].waited = 55

C4_Witness == \E t \in DOMAIN tasks : LastAttemptSucceeded(t)

\* C4 as stated: ... has slept at least the sum of 10 + 2^k for k in
\* 1..max_retries-1, which is 70 for max_retries = 5.
C4_WaitsFromOne ==
    \A t \in DOMAIN tasks :
        LastAttemptSucceeded(t) =>
            /\ tasks[t].attempts = max_retries
            /\ tasks[t].waited >= SumWaits(1, max_retries - 1)

\* C5: a task never raises; it never makes more than max_retries attempts; it
\* returns the entry at its first attempt that did not fail (every earlier attempt
\* failed and was followed by one retry); it returns None only after exactly
\* max_retries failed attempts.
C5_RetryStateMachine ==
    \A t \in DOMAIN tasks :
        /\ tasks[t].st \in {"none", "ready", "inflight", "sleeping", "success", "failed",
                            "cancelled"}
        /\ tasks[t].attempts <= max_retries
        /\ tasks[t].st = "success" => tasks[t].attempts = tasks[t].retries + 1
        /\ tasks[t].st = "failed" =>
              tasks[t].attempts = max_retries /\ tasks[t].retries = max_retries
        /\ tasks[t].st = "ready" => tasks[t].attempts = tasks[t].retries
        /\ tasks[t].st \in {"inflight", "sleeping"} =>
              tasks[t].attempts = tasks[t].retries + 1

\* one task gave up after its retries while another returned its entry after failures
C5_Witness ==
    \E t, u \in DOMAIN tasks :
        /\ tasks[t].st = "failed"
        /\ tasks[u].st = "success" /\ tasks[u].retries > 0

\* C7: on every session at most concurrency requests are in flight at any moment.
C7_InFlightBounded ==
    \A off \in 0..Len(entries) : Cardinality(InFlight(off)) <= concurrency

\* the connections of the open session are all in use and a task launched with
\* the same batch is waiting for one
C7_Witness ==
    \E off \in sessions :
        /\ Cardinality(InFlight(off)) = concurrency
        /\ \E t \in DOMAIN tasks : BatchOf(t) = off /\ tasks[t].st = "ready"

\* C11: when the cool-down pause after a batch begins, the checkpoint of that
\* batch is already written and holds every result collected so far, so an
\* interruption during the pause loses no result of a finished batch.
C11_CheckpointBeforePause ==
    fa_pc = "pause" =>
        \E c \in checkpoints : c.offset = fa_i /\ Range(results) \subseteq Range(c.rows)

\* C19: fetch_all_articles never raises, whatever the outcomes of the fetches
\* are, the case of an empty accumulated result at a checkpoint included.
C19_NeverRaises == fa_pc # "raised"

\* the tasks launched with a batch before the current one that have not ended
Leftover == {t \in DOMAIN tasks :
                BatchOf(t) < fa_i /\ tasks[t].st \in {"ready", "inflight", "sleeping"}}

\* C20: while a batch is being collected its session is the only open one and no
\* task of an earlier batch is attempting a fetch or waiting in backoff.
C20_BatchesSequential ==
    fa_pc = "collect" => (sessions = {fa_i} /\ Leftover = {})

\* the as_completed loop of the current batch was left by the break
BrokeEarly == fa_pc \in {"close", "pause", "save", "raised"} /\ consumed < Len(batch)

\* C22: after a terminal failure in batch k no later completion of batch k is
\* added to the results, the results collected so far are in batch k's
\* checkpoint once it is written, and fetch_all_articles goes on with the
\* batches after k (it does not raise).
C22_FailureEndsOnlyBatch ==
    /\ BrokeEarly => Cardinality({e \in Range(results) : BatchOf(e) = fa_i}) = consumed
    /\ (fa_pc = "for" /\ fa_i > 0) =>
          \E c \in checkpoints :
              c.offset = fa_i - batch_size /\ Range(results) \subseteq Range(c.rows)
    /\ BrokeEarly => fa_pc # "raised"

\* the number of batches of n entries
NBatches(n) == (n + batch_size - 1) \div batch_size

C27_PauseBetweenBatches ==
    /\ \A k \in 1..Len(pauses) :
          /\ pauses[k] = (k - 1) * batch_size
          /\ pauses[k] + batch_size < Len(entries)
    /\ (fa_pc = "collect" /\ fa_i > 0) => (fa_i - batch_size) \in Range(pauses)
    /\ \A t \in DOMAIN tasks :
          (tasks[t].st # "none" /\ BatchOf(t) > 0) =>
              (BatchOf(t) - batch_size) \in Range(pauses)
    /\ (fa_pc = "done" /\ Len(entries) > 0) => Len(pauses) = NBatches(Len(entries)) - 1

\* a returned call with three batches and two pauses
C27_Witness ==
    /\ fa_pc = "done"
    /\ Len(batches) = 3
    /\ Len(pauses) = 2

\* C28: the waits are 11, 12, 14, 18, 26: at least 11 and strictly increasing;
\* a task has slept 10 + 2^(k-1) after its k-th failed attempt, the last one
\* included, so a task that reports terminal failure has slept 81 in total.
C28_BackoffSchedule ==
    /\ wait_time(0) = 11
    /\ \A k \in 0..(max_retries - 2) : wait_time(k) < wait_time(k + 1)
    /\ \A t \in DOMAIN tasks :
          /\ tasks[t].st = "sleeping" => tasks[t].waited = SumWaits(0, tasks[t].retries)
          /\ tasks[t].st \in {"ready", "inflight", "success"} =>
                tasks[t].waited = SumWaits(0, tasks[t].retries - 1)
          /\ tasks[t].st = "failed" =>
                /\ tasks[t].waited = SumWaits(0, max_retries - 1)
                /\ tasks[t].waited = 81

\* a task has reported terminal failure
C28_Witness == \E t \in DOMAIN tasks : tasks[t].st = "failed" /\ tasks[t].attempts = max_retries

-----------------------------------------------------------------------------
(* Claims about main in fetch mode, checked under SpecRestart *)

\* C15: after an interruption and a restart, no entry that was in a checkpoint
\* at the interruption is fetched again.
C15_NoRefetch ==
    \A e \in interrupted.rows : tasks[e].st = "none" /\ tasks[e].attempts = 0

-----------------------------------------------------------------------------
(* Claims about collect_links on the pool, checked under SpecCollectFair *)

PoolInvariant ==
    /\ Cardinality(RunningMonths) <= max_workers
    /\ \A m \in Months :
          /\ runs[m] <= 1
          /\ worker[m] = "queued" <=> runs[m] = 0

AllExecutedOnce == \A m \in Months : Settled(m) /\ runs[m] = 1

\* C8: at every moment at most max_workers process_month calls are running, a
\* month that has not started is still queued, no month is started twice, and
\* eventually every submitted month has been executed exactly once.
C8_PoolBound == [](PoolInvariant) /\ <>(AllExecutedOnce)

\* the pool is full while a month is still waiting in the queue
C8_Witness ==
    /\ Cardinality(RunningMonths) = max_workers
    /\ \E m \in Months : worker[m] = "queued"

\* the records of the months whose process_month returned
ReturnedLinks == UNION {Range(worker_links[m]) : m \in {k \in Months : worker[k] = "returned"}}

\* C12: a process_month that raises does not make collect_links raise: when
\* collect_links has ended it has returned normally, and the records of every
\* month whose worker returned are in the log and in the merged result.
C12_WorkerFailureContained ==
    /\ cl_pc # "raised"
    /\ cl_pc = "done" =>
          /\ ReturnedLinks \subseteq Range(all_links)
          /\ ReturnedLinks \subseteq Range(appended)

\* C13: the label of a month whose process_month has ended, by returning or by
\* raising, is not in active_months, and active_months is empty once
\* collect_links has ended.
C13_MonthsUnregistered ==
    /\ \A m \in Months : Settled(m) => futures[m] \notin Range(active_months)
    /\ cl_pc \in {"done", "raised"} => active_months = <<>>

\* C14: at most one worker is inside the locked append at any time, it is the
\* holder of file_write_lock, and the records of one month are one contiguous
\* run of the log.
C14_WritesExclusive ==
    /\ Cardinality(Writers) <= 1
    /\ file_write_lock = Writers
    /\ \A i, k \in 1..Len(appended) :
          appended[i].date_api = appended[k].date_api =>
              \A j \in i..k : appended[j].date_api = appended[i].date_api
    /\ appended = load_links(links_file)

\* one worker has written the first of its two records while another worker
\* with records to write waits for the lock
C14_Witness ==
    \E m, k \in Months :
        /\ worker[m] = "writing" /\ written[m] = 1
        /\ worker[k] = "write" /\ worker_links[k] # <<>>

\* how often x occurs in a sequence
Count(seq, x) == Cardinality({i \in DOMAIN seq : seq[i] = x})

\* how often x occurs in the month_links returned by the workers 1..n
RECURSIVE CountReturned(_, _)
CountReturned(n, x) ==
    IF n = 0 THEN 0 ELSE Count(worker_links[n], x) + CountReturned(n - 1, x)

AllRecords ==
    Range(all_links) \cup Range(appended) \cup UNION {Range(worker_links[m]) : m \in Months}

\* C25: when collect_links has returned, every record occurs in its result as
\* often as in the month_links returned by all workers together, and as often
\* as in the link log, whatever the order in which the workers finished.
C25_ResultIsUnion ==
    cl_pc = "done" =>
        \A x \in AllRecords :
            /\ Count(all_links, x) = CountReturned(Len(worker_links), x)
            /\ Count(all_links, x) = Count(appended, x)

\* collect_links has returned the records of three months in an order that is
\* not the order of the log
C25_Witness ==
    /\ cl_pc = "done"
    /\ Len(all_links) = 6
    /\ all_links # appended

\* the months between the registration at entry (line 102) and the removal at
\* exit (line 142)
Registered ==
    {m \in Months : worker[m] \in {"crawl", "write", "writing", "leave", "leaving"}}

\* C30: while no worker has raised, active_months holds exactly the labels of
\* the months that have registered and not yet unregistered, each once, at most
\* max_workers of them; at most one thread holds active_months_lock, and a
\* thread that appends to, removes from or copies the list holds it.
C30_ActiveMonthsGuarded ==
    (\A m \in Months : worker[m] # "raised") =>
        /\ Range(active_months) = {futures[m] : m \in Registered}
        /\ Len(active_months) = Cardinality(Registered)
        /\ Len(active_months) <= max_workers
        /\ Cardinality(active_months_lock) <= 1
        /\ \A m \in Months : worker[m] \in {"entering", "leaving"} <=> m \in active_months_lock
        /\ cl_pc = "copy" <=> 0 \in active_months_lock

\* two months are registered, one worker holds the lock to unregister while
\* another waits for the lock
C30_Witness ==
    /\ \A m \in Months : worker[m] # "raised"
    /\ Len(active_months) = 2
    /\ \E m, k \in Months : worker[m] = "leaving" /\ worker[k] = "leave"

-----------------------------------------------------------------------------
(* Claims about the grouping loop, checked under SpecDates *)

RangeDays == {d \in Calendar : DateLE(start_date, d) /\ DateLE(d, end_date)}

GroupSlots == {<<g, k>> : g \in 1..Len(month_groups), k \in 1..31}
Slots == {s \in GroupSlots : s[2] <= Len(month_groups[s[1]].days)}
SlotDay(s) == month_groups[s[1]].days[s[2]]

\* C9: when the grouping loop has ended, every day of [start_date, end_date] is
\* in exactly one place of exactly one group, that group is keyed by the day's
\* (year, month), no two groups share a key, the days of a group are strictly
\* ascending, and every grouped day lies in the range.
C9_GroupsPartitionRange ==
    gd_pc = "grouped" =>
        /\ \A d \in RangeDays : Cardinality({s \in Slots : SlotDay(s) = d}) = 1
        /\ \A s \in Slots :
              /\ SlotDay(s) \in RangeDays
              /\ month_groups[s[1]].key = <<SlotDay(s).year, SlotDay(s).month>>
              /\ s[2] > 1 =>
                    /\ DateLE(month_groups[s[1]].days[s[2] - 1], SlotDay(s))
                    /\ month_groups[s[1]].days[s[2] - 1] # SlotDay(s)
        /\ \A g, h \in 1..Len(month_groups) :
              month_groups[g].key = month_groups[h].key => g = h

\* a range that starts in one year, ends in the next and spans three months
C9_Witness ==
    /\ gd_pc = "grouped"
    /\ Len(month_groups) = 3
    /\ start_date.year < end_date.year

-----------------------------------------------------------------------------
(* Claims about collect_links_with_error, checked under SpecReprocess *)

\* the days from start_date to the last day of its calendar month, in order
RestOfMonth ==
    [k \in 1..(DaysInMonth(start_date.year, start_date.month) - start_date.day + 1) |->
        Date(start_date.year, start_date.month, start_date.day + k - 1)]

\* C17: for a ledger line of any month, December included, the grouping loop
\* ends without raising, only days of start_date's calendar month are grouped,
\* and process_month is called once, with the days from start_date to the end of
\* that month in ascending order and with the page index of the line.
C17_RemainderOfMonth ==
    /\ gd_pc # "raised"
    /\ \A g \in 1..Len(month_groups) :
          /\ month_groups[g].key = <<start_date.year, start_date.month>>
          /\ \A k \in 1..Len(month_groups[g].days) :
                /\ month_groups[g].days[k].year = start_date.year
                /\ month_groups[g].days[k].month = start_date.month
    /\ gd_pc = "grouped" => month_groups = <<[key |-> <<start_date.year, start_date.month>>,
                                             days |-> RestOfMonth]>>
    /\ gd_pc = "called" => (days = RestOfMonth /\ page0 = error_days[1].page)

-----------------------------------------------------------------------------
(* Claims about the link log, checked under SpecLog *)

NoFullUrl(recs) == \A k \in 1..Len(recs) : ~StartsWith(recs[k].link, HTTP)

\* C10: load_links right after the appends returns exactly the appended records,
\* in append order, when no appended link starts with "http".
C10_LoadReturnsAppended ==
    (loaded.done /\ NoFullUrl(appended)) => loaded.entries = appended

\* two records were appended and loaded, one of them with a link that json escapes
C10_Witness ==
    /\ loaded.done
    /\ NoFullUrl(appended)
    /\ Len(appended) = 2
    /\ \E k \in 1..2 : \E c \in 1..Len(appended[k].link) : appended[k].link[c] \in {QT, BS, NL}

\* C16: when the same records were appended twice (the collect operation run
\* again over the same range and the same remote content), load_links returns
\* no record twice.
C16_DuplicatesFiltered ==
    LET n == Len(appended)
        h == n \div 2
    IN  (loaded.done /\ n > 0 /\ n = 2 * h
            /\ SubSeq(appended, 1, h) = SubSeq(appended, h + 1, n)) =>
        \A i, j \in 1..Len(loaded.entries) : loaded.entries[i] = loaded.entries[j] => i = j

NotFullUrl(r) == ~StartsWith(r.link, HTTP)

\* C26: load_links returns, in log order, exactly the records written to the log
\* whose link does not start with "http", whatever lines that are not records
\* stand between them; a log that does not exist yields the empty sequence.
C26_LoadSkipsMalformed ==
    loaded.done =>
        /\ loaded.entries = SelectSeq(appended, NotFullUrl)
        /\ ~log_exists => loaded.entries = <<>>

\* a log whose first line is not a record and whose second line is a record
\* that load_links returned
C26_Witness ==
    /\ loaded.done
    /\ Len(LogLines) = 2
    /\ ~json_loads(LogLines[1]).ok
    /\ Len(appended) = 1
    /\ loaded.entries = appended

-----------------------------------------------------------------------------
(* Claims about the termination of fetch_all_articles, checked under SpecFetchFair *)

\* the call is over: it returned (line 287) or an exception left it
C31_Ends == <>(fa_pc \in {"done", "raised"})

\* C31: for every list of entries and every behaviour of the service,
\* fetch_all_articles eventually returns: no task makes more than max_retries
\* attempts, the batches are started in ascending order of their offsets, and
\* the call reaches its return statement.
C31_EventuallyReturns ==
    /\ [](\A t \in DOMAIN tasks : tasks[t].attempts <= max_retries)
    /\ [](\A i, j \in 1..Len(batches) :
             (i < j /\ batches[i] # <<>> /\ batches[j] # <<>>) =>
                 batches[i][1] < batches[j][1])
    /\ <>(fa_pc = "done")

====
